---- MODULE Spec2Model ----
(***************************************************************************)
(* docs/validate_config.py of ProteusJS: the documentation-configuration   *)
(* validator.  main() changes to the script's directory, runs ten          *)
(* existence checks, two content validations (requirements.txt, conf.py)   *)
(* and the index.rst probe, and exits with 0 or 1.                         *)
(*                                                                         *)
(* Texts are sequences of one-character strings, so that Python's          *)
(* substring test and ', '.join are modelled by what they do.  The         *)
(* filesystem is the part of it the script looks at: the eleven paths of   *)
(* the checklist as seen from the script's directory.  Any other working   *)
(* directory is taken to hold none of these names.                         *)
(***************************************************************************)
EXTENDS Integers, Sequences, FiniteSets

(* ------------------------------ bounds --------------------------------- *)

\* paths of the initial filesystem that differ from the complete layout
MaxDeviations == 2
\* fragments a generated file text is made of
MaxPieces == 3
\* invocations of the script, one after the other
MaxRuns == 2
\* changes other processes make to the filesystem while the script runs
MaxFsChanges == 2

(* ------------------------- program constants --------------------------- *)

sphinx == <<"s","p","h","i","n","x">>
myst_dash_parser == <<"m","y","s","t","-","p","a","r","s","e","r">>
sphinx_rtd_theme == <<"s","p","h","i","n","x","-","r","t","d","-","t","h","e","m","e">>
myst_parser == <<"m","y","s","t","_","p","a","r","s","e","r">>
source_suffix == <<"s","o","u","r","c","e","_","s","u","f","f","i","x">>
myst_enable_extensions ==
    <<"m","y","s","t","_","e","n","a","b","l","e","_","e","x","t","e","n","s","i","o","n","s">>

req_file == "requirements.txt"
conf_file == "conf.py"
rst_file == "index.rst"

required_packages == <<sphinx, myst_dash_parser, sphinx_rtd_theme>>
required_configs == <<myst_parser, source_suffix, myst_enable_extensions>>

\* the ten existence checks of main(), in the order of the source
MainChecks ==
    << [fn |-> "check_file_exists", path |-> "conf.py", desc |-> "Sphinx configuration"],
       [fn |-> "check_file_exists", path |-> "requirements.txt", desc |-> "Requirements file"],
       [fn |-> "check_file_exists", path |-> "index.md", desc |-> "Main index file"],
       [fn |-> "check_file_exists", path |-> "../README.md", desc |-> "Project README"],
       [fn |-> "check_file_exists", path |-> "../.readthedocs.yaml", desc |-> "ReadTheDocs config"],
       [fn |-> "check_directory_exists", path |-> "_static", desc |-> "Static files directory"],
       [fn |-> "check_directory_exists", path |-> "v2", desc |-> "v2.0.0 documentation"],
       [fn |-> "check_directory_exists", path |-> "getting-started", desc |-> "Getting started docs"],
       [fn |-> "check_directory_exists", path |-> "features", desc |-> "Features documentation"],
       [fn |-> "check_directory_exists", path |-> "api", desc |-> "API documentation"] >>

\* Path(__file__).parent, and a directory the script may be started from
docs_dir == "docs"
OtherDir == "elsewhere"

(* ---------------------------- the filesystem --------------------------- *)

FilePaths == {MainChecks[k].path : k \in 1..5}
DirPaths == {MainChecks[k].path : k \in 6..10}
ContentPaths == {req_file, conf_file}
Paths == FilePaths \cup DirPaths \cup {rst_file}

\* what sits at a path: nothing, a regular file, a directory, or a regular
\* file the process has no permission to read
Kinds == {"absent", "file", "dir", "noperm"}
KindsOf(p) == IF p \in ContentPaths THEN Kinds ELSE Kinds \ {"noperm"}
HasText(k) == k \in {"file", "noperm"}

\* the layout the checklist expects
Baseline ==
    [p \in Paths |-> IF p \in DirPaths THEN "dir"
                     ELSE IF p = rst_file THEN "absent" ELSE "file"]

(* ------------------------------- texts --------------------------------- *)

NL == <<"\n">>
Hash == <<"#">>
rtd_tail == <<"-","r","t","d","-","t","h","e","m","e">>

RECURSIVE Flatten(_)
Flatten(ss) == IF ss = <<>> THEN <<>> ELSE Head(ss) \o Flatten(Tail(ss))

TextsOf(F) == UNION {{Flatten(s) : s \in [1..k -> F]} : k \in 0..MaxPieces}

ReqPieces == {sphinx, myst_dash_parser, sphinx_rtd_theme, rtd_tail, NL}
ConfPieces == {myst_parser, source_suffix, myst_enable_extensions, Hash, NL}
ReqTexts == TextsOf(ReqPieces)
ConfTexts == TextsOf(ConfPieces)

GoodReq == sphinx_rtd_theme \o NL \o myst_dash_parser
GoodConf == myst_parser \o NL \o source_suffix \o NL \o myst_enable_extensions
SampleTexts(p) ==
    IF p = req_file THEN {GoodReq, sphinx \o NL \o sphinx_rtd_theme}
    ELSE IF p = conf_file THEN {GoodConf, Hash \o source_suffix}
    ELSE {<<>>}

(* ------------------------------ variables ------------------------------ *)

VARIABLES
    fs,         \* [Paths -> Kinds]: what sits at each path of the checklist
    text,       \* [ContentPaths -> text]: the content of the two scanned files
    nchanges,   \* filesystem changes made by other processes so far
    cwd,        \* the process working directory
    pc,         \* the statement of main() (or of the validation it called) to run next
    i,          \* index into MainChecks of the next existence check
    all_good,   \* main()'s accumulator
    handles,    \* open file objects: records [path, mode, data]
    content,    \* the local variable content of the running validation
    stdout,     \* the lines printed so far
    results,    \* the checks that have returned, with what they returned
    syscalls,   \* the operating-system calls made so far
    exitcode,   \* the process exit status, -1 while running
    runs,       \* invocations started so far
    prev        \* the outcome of the previous invocation, if any

vars == <<fs, text, nchanges, cwd, pc, i, all_good, handles, content, stdout,
          results, syscalls, exitcode, runs, prev>>
envVars == <<fs, text, nchanges>>

(* ------------------------ library operations --------------------------- *)

\* what a relative path of the checklist resolves to from the working directory
Lookup(p) == IF cwd = docs_dir THEN fs[p] ELSE "absent"

\* a variant that remembers what it answered for a path earlier in the run
os_path_exists_cached(p) ==
    IF \E k \in 1..Len(syscalls) : syscalls[k].op = "exists" /\ syscalls[k].path = p
    THEN LET k == CHOOSE k \in 1..Len(syscalls) :
                     syscalls[k].op = "exists" /\ syscalls[k].path = p
         IN  syscalls[k].ret
    ELSE Lookup(p) # "absent"

\* os.path.exists(path): a stat of the path at the time of the call
os_path_exists(p) == Lookup(p) # "absent"

\* a variant that matches only at the start of the text (str.startswith)
InAtStart(s, t) == Len(s) <= Len(t) /\ SubSeq(t, 1, Len(s)) = s

\* a variant that matches only a whole line of the text
InWholeLine(s, t) ==
    \E k \in 0..(Len(t) - Len(s)) :
        /\ SubSeq(t, k + 1, k + Len(s)) = s
        /\ (k = 0 \/ t[k] = "\n")
        /\ (k + Len(s) = Len(t) \/ t[k + Len(s) + 1] = "\n")

\* Python's  s in t  on strings: s occurs in t as a contiguous run
In(s, t) == \E k \in 0..(Len(t) - Len(s)) : SubSeq(t, k + 1, k + Len(s)) = s

\* Python's  sep.join(names)
RECURSIVE Join(_, _)
Join(sep, names) ==
    IF names = <<>> THEN <<>>
    ELSE IF Len(names) = 1 THEN Head(names)
    ELSE Head(names) \o sep \o Join(sep, Tail(names))

comma_space == <<",", " ">>

\* open(path, 'r'): the exception it raises, or "" when it returns a file object
OpenError(p) ==
    CASE Lookup(p) = "absent" -> "FileNotFoundError"
      [] Lookup(p) = "dir" -> "IsADirectoryError"
      [] Lookup(p) = "noperm" -> "PermissionError"
      [] OTHER -> ""

\* the mode the two validations open their file in
OpenMode == "r"

(* --------------------------- printed lines ----------------------------- *)

Line(kind, desc, path, names) ==
    [line |-> kind, desc |-> desc, path |-> path, names |-> names]
Plain(kind) == Line(kind, "", "", <<>>)

Sys(op, path, ret, err) == [op |-> op, path |-> path, ret |-> ret, err |-> err]
Result(check, ok) == [check |-> check, ok |-> ok]

(* ------------------------- the check functions ------------------------- *)

\* check_file_exists(filepath, description): the value returned and the line printed
check_file_exists(filepath, description) ==
    IF os_path_exists(filepath)
    THEN [ret |-> TRUE, out |-> Line("found", description, filepath, <<>>)]
    ELSE [ret |-> FALSE, out |-> Line("missing", description, filepath, <<>>)]

\* check_directory_exists(dirpath, description)
check_directory_exists(dirpath, description) ==
    IF os_path_exists(dirpath)
    THEN [ret |-> TRUE, out |-> Line("found", description, dirpath, <<>>)]
    ELSE [ret |-> FALSE, out |-> Line("missing", description, dirpath, <<>>)]

\* a variant of the loop that stops at the first missing name
RECURSIVE ScanMissingFirstOnly(_, _)
ScanMissingFirstOnly(required, c) ==
    IF required = <<>> THEN <<>>
    ELSE IF ~In(Head(required), c) THEN <<Head(required)>>
         ELSE ScanMissingFirstOnly(Tail(required), c)

\* the loop  for name in required: if name not in content: missing.append(name)
RECURSIVE ScanMissing(_, _)
ScanMissing(required, c) ==
    IF required = <<>> THEN <<>>
    ELSE IF ~In(Head(required), c)
         THEN <<Head(required)>> \o ScanMissing(Tail(required), c)
         ELSE ScanMissing(Tail(required), c)

\* all_good &= value
AndAssign(a, b) == a /\ b

\* a variant in which the warning is only a warning
RstVerdictWarnOnly(g, legacy) == g

\* the branch on os.path.exists("index.rst"): the new value of all_good
RstVerdict(g, legacy) == IF legacy THEN FALSE ELSE g

\* sys.exit(0) or sys.exit(1)
ExitStatus(g) == IF g THEN 0 ELSE 1

\* the status of a process ended by an uncaught exception
FaultStatus == 1

(* ------------------------------- main() -------------------------------- *)

Running == pc \notin {"exited", "fault"}

\* a check returned ret to main(): all_good &= ret
Returned(check, ret) ==
    /\ all_good' = AndAssign(all_good, ret)
    /\ results' = Append(results, Result(check, ret))

\* a variant in which the exception is caught and main() goes on to its summary
RaiseCaught ==
    /\ pc' = "summary"
    /\ exitcode' = exitcode

\* an uncaught exception ends the process
Raise ==
    /\ pc' = "fault"
    /\ exitcode' = FaultStatus

\* a variant without the os.chdir
main_start_no_chdir ==
    /\ pc = "start"
    /\ stdout' = stdout \o <<Plain("title"), Plain("rule")>>
    /\ all_good' = TRUE
    /\ i' = 1
    /\ pc' = "checks"
    /\ UNCHANGED <<envVars, cwd, syscalls, handles, content, results, exitcode, runs, prev>>

\* the two banner lines, os.chdir(docs_dir), all_good = True
main_start ==
    /\ pc = "start"
    /\ stdout' = stdout \o <<Plain("title"), Plain("rule")>>
    /\ cwd' = docs_dir
    /\ syscalls' = Append(syscalls, Sys("chdir", docs_dir, TRUE, ""))
    /\ all_good' = TRUE
    /\ i' = 1
    /\ pc' = "checks"
    /\ UNCHANGED <<envVars, handles, content, results, exitcode, runs, prev>>

\* a variant in which a failed existence check ends the checklist
AfterCheckStopOnFail(k) ==
    IF ~os_path_exists(MainChecks[k].path) THEN "summary"
    ELSE IF k < Len(MainChecks) THEN "checks" ELSE "req_probe"

\* where main() goes after the existence check number k
AfterCheck(k) == IF k < Len(MainChecks) THEN "checks" ELSE "req_probe"

\* all_good &= check_file_exists(...), five times
main_check_file ==
    /\ pc = "checks"
    /\ MainChecks[i].fn = "check_file_exists"
    /\ LET c == MainChecks[i]
           r == check_file_exists(c.path, c.desc)
       IN  /\ syscalls' = Append(syscalls, Sys("exists", c.path, r.ret, ""))
           /\ stdout' = Append(stdout, r.out)
           /\ Returned(c.path, r.ret)
    /\ pc' = AfterCheck(i)
    /\ i' = i + 1
    /\ UNCHANGED <<envVars, cwd, handles, content, exitcode, runs, prev>>

\* all_good &= check_directory_exists(...), five times
main_check_directory ==
    /\ pc = "checks"
    /\ MainChecks[i].fn = "check_directory_exists"
    /\ LET c == MainChecks[i]
           r == check_directory_exists(c.path, c.desc)
       IN  /\ syscalls' = Append(syscalls, Sys("exists", c.path, r.ret, ""))
           /\ stdout' = Append(stdout, r.out)
           /\ Returned(c.path, r.ret)
    /\ pc' = AfterCheck(i)
    /\ i' = i + 1
    /\ UNCHANGED <<envVars, cwd, handles, content, exitcode, runs, prev>>

(* ----------------------- the content validations ----------------------- *)

\* a variant without the return: the line is printed and the function goes on
ProbeFallThrough(at, file, check, absentLine, openAt, nextAt) ==
    /\ pc = at
    /\ LET e == os_path_exists(file)
       IN  /\ syscalls' = Append(syscalls, Sys("exists", file, e, ""))
           /\ stdout' = IF e THEN stdout
                        ELSE Append(stdout, Line(absentLine, "", file, <<>>))
           /\ pc' = openAt
    /\ UNCHANGED <<envVars, cwd, i, all_good, results, handles, content, exitcode,
                   runs, prev>>

\* if not os.path.exists(file): print(...); return False
Probe(at, file, check, absentLine, openAt, nextAt) ==
    /\ pc = at
    /\ LET e == os_path_exists(file)
       IN  /\ syscalls' = Append(syscalls, Sys("exists", file, e, ""))
           /\ IF e
              THEN /\ pc' = openAt
                   /\ UNCHANGED <<stdout, all_good, results>>
              ELSE /\ stdout' = Append(stdout, Line(absentLine, "", file, <<>>))
                   /\ Returned(check, FALSE)
                   /\ pc' = nextAt
    /\ UNCHANGED <<envVars, cwd, i, handles, content, exitcode, runs, prev>>

\* with open(file, 'r') as f:  the file object holds the file it was opened on
Open(at, file, readAt) ==
    /\ pc = at
    /\ LET err == OpenError(file)
       IN  /\ syscalls' = Append(syscalls, Sys("open", file, err = "", err))
           /\ IF err = ""
              THEN /\ handles' = handles \cup
                         {[path |-> file, mode |-> OpenMode, data |-> text[file]]}
                   /\ pc' = readAt
                   /\ UNCHANGED exitcode
              ELSE /\ Raise
                   /\ UNCHANGED handles
    /\ UNCHANGED <<envVars, cwd, i, all_good, content, stdout, results, runs, prev>>

\* a variant that leaves the file object open
CloseLeak(hs, h) == hs

\* what leaving the with block does to the open file objects
CloseOnExit(hs, h) == hs \ {h}

\* content = f.read(), and the with block closes f
Read(at, file, scanAt) ==
    /\ pc = at
    /\ \E h \in handles :
          /\ h.path = file
          /\ content' = h.data
          /\ handles' = CloseOnExit(handles, h)
    /\ syscalls' = syscalls \o <<Sys("read", file, TRUE, ""), Sys("close", file, TRUE, "")>>
    /\ pc' = scanAt
    /\ UNCHANGED <<envVars, cwd, i, all_good, stdout, results, exitcode, runs, prev>>

\* the loop over the required names, the line printed, the value returned
Scan(at, check, required, missingLine, foundLine, nextAt) ==
    /\ pc = at
    /\ LET missing == ScanMissing(required, content)
       IN  IF missing # <<>>
           THEN /\ stdout' = Append(stdout,
                                Line(missingLine, "", "", Join(comma_space, missing)))
                /\ Returned(check, FALSE)
           ELSE /\ stdout' = Append(stdout, Plain(foundLine))
                /\ Returned(check, TRUE)
    /\ pc' = nextAt
    /\ UNCHANGED <<envVars, cwd, i, handles, content, syscalls, exitcode, runs, prev>>

validate_requirements ==
    \/ Probe("req_probe", req_file, "validate_requirements", "req_file_missing",
             "req_open", "conf_probe")
    \/ Open("req_open", req_file, "req_read")
    \/ Read("req_read", req_file, "req_scan")
    \/ Scan("req_scan", "validate_requirements", required_packages,
            "missing_packages", "packages_found", "conf_probe")

validate_conf_py ==
    \/ Probe("conf_probe", conf_file, "validate_conf_py", "conf_file_missing",
             "conf_open", "rst")
    \/ Open("conf_open", conf_file, "conf_read")
    \/ Read("conf_read", conf_file, "conf_scan")
    \/ Scan("conf_scan", "validate_conf_py", required_configs,
            "missing_configs", "configs_found", "rst")

(* --------------------------- the end of main() ------------------------- *)

\* if os.path.exists("index.rst"): print(warning); all_good = False
main_index_rst ==
    /\ pc = "rst"
    /\ LET e == os_path_exists(rst_file)
       IN  /\ syscalls' = Append(syscalls, Sys("exists", rst_file, e, ""))
           /\ stdout' = IF e THEN Append(stdout, Line("rst_warning", "", rst_file, <<>>))
                        ELSE stdout
           /\ all_good' = RstVerdict(all_good, e)
           /\ results' = Append(results, Result(rst_file, ~e))
    /\ pc' = "summary"
    /\ UNCHANGED <<envVars, cwd, i, handles, content, exitcode, runs, prev>>

\* the rule, the final banner, sys.exit
main_summary ==
    /\ pc = "summary"
    /\ stdout' = stdout \o <<Plain("rule"), Plain(IF all_good THEN "passed" ELSE "failed")>>
    /\ exitcode' = ExitStatus(all_good)
    /\ pc' = "exited"
    /\ UNCHANGED <<envVars, cwd, i, all_good, handles, content, results, syscalls,
                   runs, prev>>

main ==
    \/ main_start
    \/ main_check_file
    \/ main_check_directory
    \/ validate_requirements
    \/ validate_conf_py
    \/ main_index_rst
    \/ main_summary

\* what one invocation leaves behind for an observer
Outcome == [results |-> results, stdout |-> stdout, exitcode |-> exitcode, pc |-> pc]

\* the script is invoked again, as a new process
invoke_again ==
    /\ ~Running
    /\ runs < MaxRuns
    /\ runs' = runs + 1
    /\ prev' = <<Outcome>>
    /\ pc' = "start"
    /\ cwd' \in {docs_dir, OtherDir}
    /\ i' = 0
    /\ all_good' = FALSE
    /\ handles' = {}
    /\ content' = <<>>
    /\ stdout' = <<>>
    /\ results' = <<>>
    /\ syscalls' = <<>>
    /\ exitcode' = -1
    /\ UNCHANGED envVars

(* --------------------------- other processes --------------------------- *)

\* a file's text, kept only while something with a text sits at its path
NormText(f, t) == [p \in ContentPaths |-> IF HasText(f[p]) THEN t[p] ELSE <<>>]

MayChange ==
    /\ Running
    /\ nchanges < MaxFsChanges
    /\ nchanges' = nchanges + 1

\* rm, rmdir
env_remove ==
    /\ MayChange
    /\ \E p \in Paths :
          /\ fs[p] # "absent"
          /\ fs' = [fs EXCEPT ![p] = "absent"]
          /\ text' = NormText(fs', text)

\* a file or a directory appears at a free path
env_create ==
    /\ MayChange
    /\ \E p \in Paths :
          /\ fs[p] = "absent"
          /\ \E k \in KindsOf(p) \ {"absent"} :
                /\ fs' = [fs EXCEPT ![p] = k]
                /\ \E t \in SampleTexts(p) :
                      text' = NormText(fs', IF p \in ContentPaths
                                            THEN [text EXCEPT ![p] = t] ELSE text)

\* one of the two scanned files is replaced by a file with another text
env_write ==
    /\ MayChange
    /\ \E p \in ContentPaths :
          /\ HasText(fs[p])
          /\ \E t \in SampleTexts(p) \ {text[p]} : text' = [text EXCEPT ![p] = t]
          /\ UNCHANGED fs

\* chmod: read permission on one of the two scanned files is taken or given
env_chmod ==
    /\ MayChange
    /\ \E p \in ContentPaths :
          /\ HasText(fs[p])
          /\ fs' = [fs EXCEPT ![p] = IF fs[p] = "file" THEN "noperm" ELSE "file"]
          /\ UNCHANGED text

progVars == <<cwd, pc, i, all_good, handles, content, stdout, results, syscalls,
              exitcode, runs, prev>>

Env ==
    \/ (env_remove /\ UNCHANGED progVars)
    \/ (env_create /\ UNCHANGED progVars)
    \/ (env_write /\ UNCHANGED progVars)
    \/ (env_chmod /\ UNCHANGED progVars)

(* --------------------------- specifications ---------------------------- *)

\* the layouts that differ from the expected one at no more than MaxDeviations paths
Layouts ==
    UNION { { [p \in Paths |-> IF p \in D THEN alt[p] ELSE Baseline[p]] :
                alt \in {a \in [D -> Kinds] :
                           \A p \in D : a[p] \in KindsOf(p) \ {Baseline[p]}} } :
            D \in {S \in SUBSET Paths : Cardinality(S) <= MaxDeviations} }

\* a process just started: nothing run yet
InitProcess ==
    /\ cwd \in {docs_dir, OtherDir}
    /\ pc = "start"
    /\ i = 0
    /\ all_good = FALSE
    /\ handles = {}
    /\ content = <<>>
    /\ stdout = <<>>
    /\ results = <<>>
    /\ syscalls = <<>>
    /\ exitcode = -1
    /\ runs = 1
    /\ prev = <<>>
    /\ nchanges = 0

\* any bounded layout with sample texts, or the expected layout with any bounded text
Init ==
    /\ InitProcess
    /\ \/ /\ fs \in Layouts
          /\ \E a \in SampleTexts(req_file), b \in SampleTexts(conf_file) :
                text = NormText(fs, [p \in ContentPaths |-> IF p = req_file THEN a ELSE b])
       \/ /\ fs = Baseline
          /\ \E a \in ReqTexts :
                text = [p \in ContentPaths |-> IF p = req_file THEN a ELSE GoodConf]
       \/ /\ fs = Baseline
          /\ \E b \in ConfTexts :
                text = [p \in ContentPaths |-> IF p = req_file THEN GoodReq ELSE b]

\* the filesystem stays as it is: the script run once and again
Next == main \/ invoke_again

Spec == Init /\ [][Next]_vars

\* the expected layout, changed by other processes while the script runs
InitEnv ==
    /\ InitProcess
    /\ fs = Baseline
    /\ text = [p \in ContentPaths |-> IF p = req_file THEN GoodReq ELSE GoodConf]

NextEnv == main \/ Env

SpecEnv == InitEnv /\ [][NextEnv]_vars

\* the same, with every step of main() that can be taken eventually taken
FairSpecEnv == SpecEnv /\ WF_vars(main)

(* ------------------------------ properties ----------------------------- *)

\* the thirteen checks of one run, in the order of main()
Checklist ==
    [k \in 1..Len(MainChecks) |-> MainChecks[k].path]
        \o <<"validate_requirements", "validate_conf_py", rst_file>>

ChecksRun == [k \in 1..Len(results) |-> results[k].check]

\* s occurs in t, character by character
OccursAt(s, t, a) == \A j \in 1..Len(s) : a + j - 1 <= Len(t) /\ t[a + j - 1] = s[j]
OccursIn(s, t) == \E a \in 1..(Len(t) + 1) : OccursAt(s, t, a)

\* the required names that do not occur in a text, in the order of the list
Absent(required, t) ==
    LET gone(n) == ~OccursIn(n, t) IN SelectSeq(required, gone)

\* the names of a list at the positions S, in the order of the list
Pick(names, S) ==
    [k \in 1..Cardinality(S) |->
        names[CHOOSE j \in S : Cardinality({m \in S : m <= j}) = k]]

HasLine(kind) == \E k \in 1..Len(stdout) : stdout[k].line = kind
HasCall(op, path) == \E k \in 1..Len(syscalls) : syscalls[k].op = op /\ syscalls[k].path = path

\* every check but the index.rst probe returned true
OthersPassed == \A k \in 1..Len(results) : results[k].check # rst_file => results[k].ok

\* C1: on a filesystem that does not change, a run that ends without a read fault
\* exits with 0 exactly when the five file checks, the five directory checks and
\* both content validations returned true and index.rst does not exist, and
\* with 1 in every other case.
C1_ExitCode ==
    pc = "exited" =>
        /\ ChecksRun = Checklist
        /\ exitcode = IF OthersPassed /\ fs[rst_file] = "absent" THEN 0 ELSE 1

\* every other check passed and index.rst exists: the exit code is 1
C1_Witness ==
    /\ pc = "exited"
    /\ ChecksRun = Checklist
    /\ OthersPassed
    /\ fs[rst_file] # "absent"
    /\ exitcode = 1

\* C2: the checks that have returned are always the first ones of the fixed
\* list, each once and in order, and a run that reaches its end has run all
\* thirteen, whatever the earlier checks returned.
C2_AllChecksRun ==
    /\ Len(results) <= Len(Checklist)
    /\ \A k \in 1..Len(results) : results[k].check = Checklist[k]
    /\ pc = "exited" => ChecksRun = Checklist
    /\ pc \in {"summary", "exited"} => Len(results) = Len(Checklist)

\* the first check failed and the other twelve still ran
C2_Witness ==
    /\ pc = "exited"
    /\ ChecksRun = Checklist
    /\ ~results[1].ok
    /\ \E k \in 2..Len(results) : results[k].ok

AllOccur(required, t) == \A j \in 1..Len(required) : OccursIn(required[j], t)

\* C3: what a content validation returns is true exactly when its file exists
\* and each of its three required names occurs somewhere in the file's text.
C3_ValidationResult ==
    \A k \in 1..Len(results) :
        /\ results[k].check = "validate_requirements" =>
              results[k].ok = (fs[req_file] # "absent"
                               /\ AllOccur(required_packages, text[req_file]))
        /\ results[k].check = "validate_conf_py" =>
              results[k].ok = (fs[conf_file] # "absent"
                               /\ AllOccur(required_configs, text[conf_file]))

\* requirements.txt passes with its names on one line, none at the start of a line
C3_Witness ==
    /\ \E k \in 1..Len(results) :
          results[k].check = "validate_requirements" /\ results[k].ok
    /\ ~OccursIn(NL, text[req_file])
    /\ ~OccursAt(sphinx, text[req_file], 1)

\* C4: the names a content validation reports as missing are the required
\* names that do not occur in the file's text, all of them and no other, joined
\* in the order of the required list; it reports none when none is missing.
C4_MissingList ==
    \A k \in 1..Len(stdout) :
        /\ stdout[k].line = "missing_packages" =>
              /\ Absent(required_packages, text[req_file]) # <<>>
              /\ stdout[k].names =
                    Join(comma_space, Absent(required_packages, text[req_file]))
        /\ stdout[k].line = "missing_configs" =>
              /\ Absent(required_configs, text[conf_file]) # <<>>
              /\ stdout[k].names =
                    Join(comma_space, Absent(required_configs, text[conf_file]))
        /\ stdout[k].line = "packages_found" =>
              Absent(required_packages, text[req_file]) = <<>>
        /\ stdout[k].line = "configs_found" =>
              Absent(required_configs, text[conf_file]) = <<>>

\* conf.py lacks two names, the first and the last of the list: both are reported
C4_Witness ==
    /\ OccursIn(source_suffix, text[conf_file])
    /\ \E k \in 1..Len(stdout) :
          /\ stdout[k].line = "missing_configs"
          /\ stdout[k].names = myst_parser \o comma_space \o myst_enable_extensions

\* requirements.txt omits only myst-parser: exactly myst-parser is reported
C4_ScenarioC ==
    /\ OccursIn(sphinx_rtd_theme, text[req_file])
    /\ \E k \in 1..Len(stdout) :
          stdout[k].line = "missing_packages" /\ stdout[k].names = myst_dash_parser

Validations ==
    { [probe |-> "req_probe", file |-> req_file, check |-> "validate_requirements",
       absent |-> "req_file_missing", next |-> "conf_probe"],
      [probe |-> "conf_probe", file |-> conf_file, check |-> "validate_conf_py",
       absent |-> "conf_file_missing", next |-> "rst"] }

\* C5: a content validation whose file is absent when it probes it prints the
\* missing-file line, returns false and hands over to the next check; it opens
\* nothing, reads nothing and scans nothing.
C5_AbsentFile ==
    [][ \A v \in Validations :
          (pc = v.probe /\ pc' # pc /\ fs[v.file] = "absent") =>
              /\ pc' = v.next
              /\ results' = Append(results, Result(v.check, FALSE))
              /\ ~all_good'
              /\ stdout' = Append(stdout, Line(v.absent, "", v.file, <<>>))
              /\ syscalls' = Append(syscalls, Sys("exists", v.file, FALSE, ""))
              /\ handles' = handles
              /\ content' = content ]_vars

\* conf.py was missing: the run went on to its end without opening it
C5_Witness ==
    /\ pc = "exited"
    /\ HasLine("conf_file_missing")
    /\ ~HasLine("missing_configs")
    /\ ~HasCall("open", conf_file)
    /\ HasCall("read", req_file)

C7_SameOutcome == (~Running /\ prev # <<>>) => Outcome = prev[1]

\* a second run has ended, after thirteen checks, one of them with a missing list
C7_Witness ==
    /\ ~Running
    /\ prev # <<>>
    /\ Len(prev[1].results) = Len(Checklist)
    /\ HasLine("missing_packages")
    /\ exitcode = 1

\* how a run may end
C8_Endings ==
    /\ Running => exitcode = -1
    /\ pc = "exited" =>
          /\ ChecksRun = Checklist
          /\ exitcode \in {0, 1}
          /\ Len(stdout) >= 2
          /\ stdout[Len(stdout) - 1] = Plain("rule")
          /\ stdout[Len(stdout)] = Plain(IF exitcode = 0 THEN "passed" ELSE "failed")
    /\ pc = "fault" =>
          LET n == Len(syscalls)
          IN  /\ n >= 2
              /\ syscalls[n].op = "open"
              /\ syscalls[n].path \in ContentPaths
              /\ ~syscalls[n].ret
              /\ syscalls[n - 1] = Sys("exists", syscalls[n].path, TRUE, "")
              /\ exitcode # 0

\* C8: every run ends, either after the whole checklist and the final banner
\* with exit code 0 or 1, or by the fault of the open-and-read of
\* requirements.txt or conf.py right after that file's probe found it.
C8_Terminates == []C8_Endings /\ <>(~Running)

\* the file was there for the probe and gone for the open
C8_Witness ==
    /\ pc = "fault"
    /\ syscalls[Len(syscalls)].err = "FileNotFoundError"

\* what holds of the process at every moment of a run
C9_Process ==
    /\ \A h \in handles : h.mode = "r"
    /\ handles # {} => pc \in {"req_read", "conf_read"}
    /\ \A k \in 1..Len(syscalls) :
          /\ syscalls[k].op \in {"chdir", "exists", "open", "read", "close"}
          /\ syscalls[k].op = "chdir" <=> k = 1
          /\ syscalls[k].op = "chdir" => syscalls[k].path = docs_dir
    /\ pc # "start" => cwd = docs_dir /\ syscalls # <<>>

\* C9: no step of a run changes the filesystem; files are opened for reading
\* only and are closed when the next check starts; the working directory is
\* set once, to the script's directory, before the first check, and stays.
C9_ReadOnly ==
    /\ []C9_Process
    /\ [][progVars' # progVars => (fs' = fs /\ text' = text)]_vars
    /\ [][pc # "start" => cwd' = cwd]_vars

\* a run that read both files has ended, with nothing left open
C9_Witness ==
    /\ pc = "exited"
    /\ HasCall("close", req_file)
    /\ HasCall("close", conf_file)
    /\ handles = {}

ReachableReports(required, texts) == {ScanMissing(required, t) : t \in texts}
PackageReports == ReachableReports(required_packages, ReqTexts)
ConfigReports == ReachableReports(required_configs, ConfTexts)

\* C10: sphinx is never reported missing without sphinx-rtd-theme, so six of
\* the eight sublists of the required packages can be reported and two cannot,
\* and a requirements.txt with myst-parser and sphinx-rtd-theme passes; all
\* eight sublists of the required configurations can be reported.
C10_SphinxImplied ==
    /\ \A k \in 1..Len(stdout) :
          stdout[k].line = "missing_packages" =>
              stdout[k].names \notin
                  {sphinx, sphinx \o comma_space \o myst_dash_parser}
    /\ \A k \in 1..Len(results) :
          (/\ results[k].check = "validate_requirements"
           /\ OccursIn(myst_dash_parser, text[req_file])
           /\ OccursIn(sphinx_rtd_theme, text[req_file])) => results[k].ok
    /\ PackageReports =
          {Pick(required_packages, S) : S \in {T \in SUBSET (1..3) : 1 \in T => 3 \in T}}
    /\ ConfigReports = {Pick(required_configs, S) : S \in SUBSET (1..3)}

\* requirements.txt passes though sphinx occurs in it only inside sphinx-rtd-theme
C10_Witness ==
    /\ \E k \in 1..Len(results) :
          results[k].check = "validate_requirements" /\ results[k].ok
    /\ \A a \in 1..Len(text[req_file]) :
          OccursAt(sphinx, text[req_file], a) => OccursAt(sphinx_rtd_theme, text[req_file], a)

====
